---- MODULE Spec2Model ----
(***************************************************************************)
(* The task store of final_project/todo.py: class Task, class Tasks with   *)
(* its pickle persistence, and the process life cycle around it (the       *)
(* class-wide ID counter, the atexit save, a restart from the data file):  *)
(* specification Spec. The calls that only read the store, _sort_open and  *)
(* parse_due on a weekday name, each on bounded inputs: SpecCalls.         *)
(***************************************************************************)
EXTENDS Integers, Sequences, FiniteSets, TLC

(***************************************************************************)
(* Bounds of the model.                                                    *)
(***************************************************************************)
\* Task() is constructed only while Task._id_counter <= MaxId.
MaxId == 2
\* Tasks objects constructed in one process.
MaxStores == 2
\* I/O errors (OSError of makedirs, open, dump, replace, remove) injected.
MaxFaults == 1

\* None, for due_date and completed; every datetime of the model is >= 1.
None == 0
\* The values datetime.now() returns, in any order: the clock may stand
\* still or be set back between two calls.
Times == {1, 2}

\* The calls of Tasks.add: name, priority as given, due date, and what
\* datetime.now() returns during the call.
AddCases ==
    {[name |-> "milk", priority |-> 0, due_date |-> None, now |-> 2],
     [name |-> "Tea", priority |-> 2, due_date |-> 2, now |-> 1]}
\* Task IDs a caller passes to delete and done.
IdArgs == 1..MaxId

VARIABLES
    proc,       \* the Python process: "running", "exiting", "exited", "crashed"
    idCounter,  \* Task._id_counter, a class attribute: one per process
    hasStore,   \* a Tasks object has been constructed in this process
    tasks,      \* self.tasks of the Tasks object most recently constructed
    older,      \* self.tasks of the earlier Tasks objects of this process,
                \* which atexit still holds, in order of construction
    file,       \* what is at self.filepath
    tmp,        \* what is at self.filepath + ".tmp"
    pc,         \* position inside pickle_tasks: "idle", "open", "dump", "replace"
    pending,    \* the self.tasks of the stores whose pickle_tasks is still to run
    call,       \* the store call in progress, or the last one that ended;
                \* in SpecCalls the one call made: op, args, status, result
    issued,     \* highest ID given to a Task in this process since the last reset
    sinceReset, \* "reset": reset() returned and no store was called since;
                \* "loaded": the next call after that reset() constructed
                \* a store, the last call so far; "none" otherwise
    faults      \* I/O errors injected so far

vars == <<proc, idCounter, hasStore, tasks, older, file, tmp, pc, pending,
          call, issued, sinceReset, faults>>

(***************************************************************************)
(* Pure helpers.                                                           *)
(***************************************************************************)
Max(a, b) == IF a >= b THEN a ELSE b

RECURSIVE MaxId_(_)
\* max((t.unique_id for t in self.tasks), default=0)
MaxId_(ts) ==
    IF ts = <<>> THEN 0 ELSE Max(Head(ts).unique_id, MaxId_(Tail(ts)))

RECURSIVE Reverse(_)
Reverse(s) == IF s = <<>> THEN <<>> ELSE Append(Reverse(Tail(s)), Head(s))

\* Task.__init__ storing the priority as given
Uncoerced(priority) == priority

\* Task.__init__: priority if priority in (1, 2, 3) else 1
Coerce(priority) == IF priority \in {1, 2, 3} THEN priority ELSE 1

\* Task.__init__
Task(name, priority, due_date, id, now) ==
    [unique_id |-> id, name |-> name, priority |-> Coerce(priority),
     created |-> now, due_date |-> due_date, completed |-> None]

\* One step of list.sort(key=created): t goes behind every element whose key
\* is not greater (the sort is stable).
RECURSIVE InsertByCreated(_, _)
InsertByCreated(t, s) ==
    IF s = <<>> THEN <<t>>
    ELSE IF Head(s).created <= t.created
         THEN <<Head(s)>> \o InsertByCreated(t, Tail(s))
         ELSE <<t>> \o s

\* self.tasks.sort(key=lambda t: t.created)
RECURSIVE SortByCreated(_)
SortByCreated(s) ==
    IF s = <<>> THEN <<>>
    ELSE InsertByCreated(s[Len(s)], SortByCreated(SubSeq(s, 1, Len(s) - 1)))

\* add and _load without their sort
Unsorted(ts) == ts

\* self.tasks.sort(key=lambda x: x.created) of add and of _load
SortTasks(ts) == SortByCreated(ts)

\* Index of the first task with this ID, 0 when there is none: the for loops
\* of delete and done.
RECURSIVE FirstIndex(_, _, _)
FirstIndex(ts, id, i) ==
    IF i > Len(ts) THEN 0
    ELSE IF ts[i].unique_id = id THEN i ELSE FirstIndex(ts, id, i + 1)

\* delete cutting the list off behind the task: self.tasks = self.tasks[i+1:]
RemoveThrough(ts, i) == SubSeq(ts, i + 1, Len(ts))

\* del self.tasks[i]
RemoveAt(ts, i) == SubSeq(ts, 1, i - 1) \o SubSeq(ts, i + 1, Len(ts))

\* Tasks.done without its test of t.completed
AlwaysOpen(t) == TRUE

\* if t.completed is None, of Tasks.done
IsOpen(t) == t.completed = None

\* t.mark_completed() on the task at index i
MarkCompleted(ts, i, now) == [ts EXCEPT ![i].completed = now]

(***************************************************************************)
(* The read-only calls: list, query, report and _sort_open.                *)
(***************************************************************************)
\* An optional argument: left out (None), or given with a value.
NoArg == [given |-> FALSE]
Arg(v) == [given |-> TRUE, value |-> v]

UpperCase == <<"A", "B", "C", "D", "E", "F", "G", "H", "I", "J", "K", "L", "M",
               "N", "O", "P", "Q", "R", "S", "T", "U", "V", "W", "X", "Y", "Z">>
LowerCase == <<"a", "b", "c", "d", "e", "f", "g", "h", "i", "j", "k", "l", "m",
               "n", "o", "p", "q", "r", "s", "t", "u", "v", "w", "x", "y", "z">>

\* The characters of a task name, in order.
Chars(name) ==
    CASE name = "milk" -> <<"m", "i", "l", "k">>
      [] name = "Tea" -> <<"T", "e", "a">>
      [] name = "team" -> <<"t", "e", "a", "m">>
      [] name = "MILK" -> <<"M", "I", "L", "K">>
      [] name = "eat" -> <<"e", "a", "t">>

\* a query comparing the strings as they are
SameCase(c) == c

\* str.lower() on one character
Lower(c) ==
    IF \E i \in 1..Len(UpperCase) : UpperCase[i] = c
    THEN LowerCase[CHOOSE i \in 1..Len(UpperCase) : UpperCase[i] = c]
    ELSE c

\* str.lower()
LowerStr(str) == [i \in 1..Len(str) |-> Lower(str[i])]

\* sub in str
Contains(sub, str) ==
    \E i \in 0..(Len(str) - Len(sub)) : SubSeq(str, i + 1, i + Len(sub)) = sub

\* any(s in t.name.lower() for s in lowers), lowers = [t.lower() for t in
\* texts]; each text is given as the sequence of its characters
AnyTextIn(texts, t) ==
    \E i \in 1..Len(texts) :
       Contains(LowerStr(texts[i]), LowerStr(Chars(t.name)))

\* query testing "if completed:"
CompletedTruthy(completed) == completed.given /\ completed.value

\* if completed is not None
CompletedGiven(completed) == completed.given

\* list returning every task whatever include_completed is
ListAll(ts, include_completed) == ts

\* Tasks.list
List(ts, include_completed) ==
    IF include_completed THEN ts
    ELSE LET open(t) == t.completed = None IN SelectSeq(ts, open)

\* Tasks.query; q holds the keyword arguments
Query(ts, q) ==
    LET byText(t) == AnyTextIn(q.texts.value, t)
        byPriority(t) == t.priority = q.priority.value
        byDueBefore(t) ==
            t.due_date # None /\ t.due_date <= q.due_before.value
        byDueAfter(t) ==
            t.due_date # None /\ t.due_date >= q.due_after.value
        byCompleted(t) == (t.completed # None) = q.completed.value
        r1 == IF q.texts.given /\ q.texts.value # <<>>
              THEN SelectSeq(ts, byText) ELSE ts
        r2 == IF q.priority.given /\ q.priority.value \in {1, 2, 3}
              THEN SelectSeq(r1, byPriority) ELSE r1
        r3 == IF q.due_before.given THEN SelectSeq(r2, byDueBefore) ELSE r2
        r4 == IF q.due_after.given THEN SelectSeq(r3, byDueAfter) ELSE r3
    IN  IF CompletedGiven(q.completed) THEN SelectSeq(r4, byCompleted) ELSE r4

\* query with the completed keyword alone
QueryCompleted(ts, completed) ==
    Query(ts, [texts |-> NoArg, priority |-> NoArg, due_before |-> NoArg,
               due_after |-> NoArg, completed |-> Arg(completed)])

\* Tasks.report
Report(ts) ==
    LET total == Len(ts)
        done == Cardinality({i \in 1..Len(ts) : ts[i].completed # None})
    IN  [total |-> total, open |-> total - done, completed |-> done,
         by_priority |->
            [p \in {1, 2, 3} |->
                Cardinality({i \in 1..Len(ts) : ts[i].priority = p})]]

\* _sort_open ordering the dated tasks by (due_date, created)
DueKeyNoPriority(a, b) ==
    \/ a.due_date < b.due_date
    \/ a.due_date = b.due_date /\ a.created <= b.created

\* (a.due_date, a.priority, a.created) <= (b.due_date, b.priority, b.created)
DueKeyLe(a, b) ==
    \/ a.due_date < b.due_date
    \/ a.due_date = b.due_date /\ a.priority < b.priority
    \/ a.due_date = b.due_date /\ a.priority = b.priority
          /\ a.created <= b.created

\* (a.priority, a.created) <= (b.priority, b.created)
PlainKeyLe(a, b) ==
    \/ a.priority < b.priority
    \/ a.priority = b.priority /\ a.created <= b.created

\* The key of with_due.sort (dated) or of without_due.sort
KeyLe(a, b, dated) == IF dated THEN DueKeyLe(a, b) ELSE PlainKeyLe(a, b)

\* One step of list.sort(key=...): t goes behind every element whose key is
\* not greater (the sort is stable).
RECURSIVE InsertByKey(_, _, _)
InsertByKey(t, s, dated) ==
    IF s = <<>> THEN <<t>>
    ELSE IF KeyLe(Head(s), t, dated)
         THEN <<Head(s)>> \o InsertByKey(t, Tail(s), dated)
         ELSE <<t>> \o s

\* with_due.sort(key=...), without_due.sort(key=...)
RECURSIVE SortByKey(_, _)
SortByKey(s, dated) ==
    IF s = <<>> THEN <<>>
    ELSE InsertByKey(s[Len(s)], SortByKey(SubSeq(s, 1, Len(s) - 1), dated),
                     dated)

\* _sort_open
SortOpen(items) ==
    LET hasDue(t) == t.due_date # None
        noDue(t) == t.due_date = None
    IN  SortByKey(SelectSeq(items, hasDue), TRUE)
            \o SortByKey(SelectSeq(items, noDue), FALSE)

\* list() putting the list it returns in the place of self.tasks
StoreFiltered(ts, result) == result

\* self.tasks after list() has returned result: the result is a new list,
\* and nothing is assigned to self.tasks.
StoreAfterList(ts, result) == ts

(***************************************************************************)
(* parse_due on a weekday name. A date is the number of its day, day 0 a   *)
(* Monday.                                                                 *)
(***************************************************************************)
weekdays == <<"monday", "tuesday", "wednesday", "thursday", "friday",
              "saturday", "sunday">>

\* date.weekday(): 0 for Monday .. 6 for Sunday
Weekday(day) == day % Len(weekdays)

\* weekdays.index(s)
Index(s) == CHOOSE i \in 0..(Len(weekdays) - 1) : weekdays[i + 1] = s

\* parse_due without its test of delta == 0
DeltaSameWeek(target, today) == (target - Weekday(today)) % Len(weekdays)

\* delta = (target - now.weekday()) % 7; if delta == 0: delta = 7
Delta(target, today) ==
    LET delta == (target - Weekday(today)) % Len(weekdays)
    IN  IF delta = 0 THEN Len(weekdays) ELSE delta

\* parse_due(s) for s in weekdays, today being datetime.now().date(): the
\* date of now + timedelta(days=delta)
ParseWeekday(s, today) == today + Delta(Index(s), today)

(***************************************************************************)
(* What a path on disk holds.                                              *)
(***************************************************************************)
\* no file
Absent == [kind |-> "absent", tasks |-> <<>>, last_id |-> 0]
\* bytes pickle.load rejects, a file open() rejects, or a pickle that is no
\* pair with an integer second element
Garbage == [kind |-> "garbage", tasks |-> <<>>, last_id |-> 0]
\* a pickle cut short: what open(tmp, "wb") and an unfinished dump leave
Partial == [kind |-> "partial", tasks |-> <<>>, last_id |-> 0]
\* a complete pickle at the temporary path that its pickle_tasks did not move
\* into place; nothing reads it, and the next open(tmp, "wb") cuts it
Stale == [kind |-> "stale", tasks |-> <<>>, last_id |-> 0]
\* a pickle of (x, n), n an integer and x not a list of Task objects
BadList(n) == [kind |-> "badlist", tasks |-> <<>>, last_id |-> n]
\* the pickle of (self.tasks, last_id) that pickle_tasks dumps
Pickled(ts) == [kind |-> "state", tasks |-> ts, last_id |-> MaxId_(ts)]

\* What the first process may find at the data file path.
InitialFiles == {Absent, Garbage, BadList(1)}

\* _atomic_dump opening the data file itself: open(path, "wb")
OpenedInPlace(f, t) == [file |-> Partial, tmp |-> t]

\* The two paths after open(tmp, "wb") of _atomic_dump: the data file is
\* not touched, the temporary file is created or cut to length 0.
Opened(f, t) == [file |-> f, tmp |-> Partial]

\* _atomic_dump without its os.replace
NotReplaced(f, t) == [file |-> f, tmp |-> t]

\* The two paths after os.replace(tmp, path).
Replaced(f, t) == [file |-> t, tmp |-> Absent]

\* The temporary file a pickle_tasks leaves behind when it ends at position
\* p without os.replace: by an exception or with the process.
LeftBehind(t, p) ==
    CASE p = "dump" -> Partial
      [] p = "replace" -> Stale
      [] OTHER -> t

\* _load with last_id read as the last ID but one
LoadCounterOffByOne(counter, last_id) ==
    IF counter >= last_id + 2 THEN counter ELSE last_id + 2

\* _load leaving Task._id_counter as it is
LoadCounterKept(counter, last_id) == counter

\* _load with the counter taken from the file alone
LoadCounterFromFile(counter, last_id) == last_id + 1

\* Task._id_counter = max(Task._id_counter, last_id + 1)
LoadCounter(counter, last_id) == Max(counter, last_id + 1)

\* Tasks._load: the resulting self.tasks and Task._id_counter
Load(f, counter) ==
    CASE f.kind = "absent" ->
            [tasks |-> <<>>, idCounter |-> counter]
      [] f.kind \in {"garbage", "partial"} ->
            \* pickle.load or the unpacking raises: except Exception
            [tasks |-> <<>>, idCounter |-> counter]
      [] f.kind = "badlist" ->
            \* the counter is assigned, then sort raises: except Exception
            [tasks |-> <<>>, idCounter |-> LoadCounter(counter, f.last_id)]
      [] f.kind = "state" ->
            [tasks |-> SortTasks(f.tasks),
             idCounter |-> LoadCounter(counter, f.last_id)]

(***************************************************************************)
(* The record of a store call.                                             *)
(***************************************************************************)
NoPre == [tasks |-> <<>>, idCounter |-> 0]
NoCall == [op |-> "none", ok |-> FALSE, status |-> "none", pre |-> NoPre]
\* A call that is inside pickle_tasks; pre is the memory it started from.
Running(op) ==
    [op |-> op, ok |-> TRUE, status |-> "running",
     pre |-> [tasks |-> tasks, idCounter |-> idCounter]]
\* A call that returned ok to its caller without calling pickle_tasks.
Returned(op, ok) ==
    [op |-> op, ok |-> ok, status |-> "returned", pre |-> NoPre]
\* A call that returned ok to its caller after pickle_tasks returned.
Saved(op, ok) == [op |-> op, ok |-> ok, status |-> "saved", pre |-> NoPre]

Idle == proc = "running" /\ hasStore /\ pc = "idle"

(***************************************************************************)
(* The process.                                                            *)
(***************************************************************************)
\* The process is gone and its memory with it; the variables of the memory
\* take the values the next process starts with (Task._id_counter = 1).
Terminate(how) ==
    /\ proc' = how
    /\ idCounter' = 1
    /\ hasStore' = FALSE
    /\ tasks' = <<>>
    /\ older' = <<>>
    /\ pc' = "idle"
    /\ pending' = <<>>
    /\ call' = NoCall
    /\ issued' = 0

Init ==
    /\ proc = "running"
    /\ idCounter = 1
    /\ hasStore = FALSE
    /\ tasks = <<>>
    /\ older = <<>>
    /\ file \in InitialFiles
    /\ tmp = Absent
    /\ pc = "idle"
    /\ pending = <<>>
    /\ call = NoCall
    /\ issued = 0
    /\ sinceReset = "none"
    /\ faults = 0

\* A new interpreter runs the module: class Task is created afresh.
StartProcess ==
    /\ proc \in {"exited", "crashed"}
    /\ proc' = "running"
    /\ UNCHANGED <<idCounter, hasStore, tasks, older, file, tmp, pc, pending,
                   call, issued, sinceReset, faults>>

\* Tasks.__init__: _load, then atexit.register(self.pickle_tasks). The store
\* constructed before stays registered with atexit. The caller keeps to one
\* store: it constructs a further one only when the current one is empty
\* (after reset), and from then on calls the new one only.
Constructed(by) ==
    /\ proc = "running"
    /\ pc = "idle"
    /\ hasStore => tasks = <<>>
    /\ Len(older) + (IF hasStore THEN 1 ELSE 0) < MaxStores
    /\ LET l == Load(file, idCounter) IN
         /\ tasks' = l.tasks
         /\ idCounter' = l.idCounter
    /\ older' = IF hasStore THEN Append(older, tasks) ELSE older
    /\ hasStore' = TRUE
    /\ call' = by
    /\ sinceReset' = IF sinceReset = "reset" THEN "loaded" ELSE "none"
    /\ UNCHANGED <<proc, file, tmp, pc, pending, issued, faults>>

\* Tasks() called by a user of the class
Construct == Constructed(Returned("construct", TRUE))

(***************************************************************************)
(* main with --add, as far as it rejects the command.                      *)
(***************************************************************************)
\* The command lines: the text after --add, as the sequence of its
\* characters, and the expression after --due, "" when there is no --due.
AddCommands ==
    {[text |-> <<" ", " ">>, due |-> ""],
     [text |-> <<" ", "1", "2">>, due |-> "friday"],
     [text |-> <<"t", "e", "a", " ">>, due |-> "someday"],
     [text |-> <<"t", "e", "a", " ">>, due |-> " Friday"],
     [text |-> <<"1", "2", "a">>, due |-> "02/30/2024"]}

\* str.lstrip() for blanks
RECURSIVE LStrip(_)
LStrip(str) ==
    IF str # <<>> /\ Head(str) = " " THEN LStrip(Tail(str)) ELSE str

\* args.add.strip()
Strip(str) == Reverse(LStrip(Reverse(LStrip(str))))

\* title.isdigit()
IsDigit(str) ==
    /\ str # <<>>
    /\ \A i \in 1..Len(str) :
          str[i] \in {"0", "1", "2", "3", "4", "5", "6", "7", "8", "9"}

\* title = args.add.strip(); if not title or title.isdigit(): raise
TitleAccepted(text) == Strip(text) # <<>> /\ ~IsDigit(Strip(text))

\* raw.strip().lower() of parse_due, for the expressions of AddCommands
Normalized(raw) ==
    CASE raw = " Friday" -> "friday"
      [] OTHER -> raw

\* parse_due(raw) returns: raw is empty, a word for no date, today,
\* tomorrow or a weekday when stripped and lowered, or strptime takes raw
\* itself in one of the three formats; "someday" is in no format and
\* "02/30/2024" is no date, and parse_due raises ValueError on them.
DueRecognized(raw) ==
    \/ raw = ""
    \/ Normalized(raw) \in {"none", "no", "na", "n/a", "-", "today", "tomorrow"}
    \/ \E i \in 1..Len(weekdays) : Normalized(raw) = weekdays[i]
    \/ raw \in {"12/31/2025", "12/31/25", "2025-12-31"}

\* The add branch of main gets as far as tasks.add.
Accepted(cmd) == TitleAccepted(cmd.text) /\ DueRecognized(cmd.due)

\* main(["--add", text, "--due", due]) on a command it rejects: Tasks() of
\* line 244, then ValueError from the test of the title or from parse_due,
\* caught by except Exception: return 1. (An accepted command goes on as
\* Add does.)
MainAddRejected(cmd) ==
    /\ ~Accepted(cmd)
    /\ Constructed(Returned("main --add", FALSE))

(***************************************************************************)
(* The store's mutating calls, up to their call of pickle_tasks.           *)
(***************************************************************************)
\* Tasks.add
Add(name, priority, due_date, now) ==
    /\ Idle
    /\ idCounter <= MaxId
    /\ tasks' = SortTasks(
                    Append(tasks, Task(name, priority, due_date, idCounter, now)))
    /\ idCounter' = idCounter + 1
    /\ issued' = idCounter
    /\ call' = Running("add")
    /\ pc' = "open"
    /\ pending' = <<tasks'>>
    /\ sinceReset' = "none"
    /\ UNCHANGED <<proc, hasStore, older, file, tmp, faults>>

\* Tasks.delete
Delete(task_id) ==
    /\ Idle
    /\ LET i == FirstIndex(tasks, task_id, 1) IN
         IF i > 0
         THEN /\ tasks' = RemoveAt(tasks, i)
              /\ call' = Running("delete")
              /\ pc' = "open"
              /\ pending' = <<tasks'>>
         ELSE /\ call' = Returned("delete", FALSE)
              /\ UNCHANGED <<tasks, pc, pending>>
    /\ sinceReset' = "none"
    /\ UNCHANGED <<proc, idCounter, hasStore, older, file, tmp, issued,
                   faults>>

\* Tasks.done
Done(task_id, now) ==
    /\ Idle
    /\ LET i == FirstIndex(tasks, task_id, 1) IN
         IF i > 0
         THEN IF IsOpen(tasks[i])
              THEN /\ tasks' = MarkCompleted(tasks, i, now)
                   /\ call' = Running("done")
                   /\ pc' = "open"
                   /\ pending' = <<tasks'>>
              ELSE /\ call' = Returned("done", TRUE)
                   /\ UNCHANGED <<tasks, pc, pending>>
         ELSE /\ call' = Returned("done", FALSE)
              /\ UNCHANGED <<tasks, pc, pending>>
    /\ sinceReset' = "none"
    /\ UNCHANGED <<proc, idCounter, hasStore, older, file, tmp, issued,
                   faults>>

\* Tasks.reset, os.remove succeeding or no file being there
Reset ==
    /\ Idle
    /\ tasks' = <<>>
    /\ idCounter' = 1
    /\ issued' = 0
    /\ file' = Absent
    /\ call' = Returned("reset", TRUE)
    /\ sinceReset' = "reset"
    /\ UNCHANGED <<proc, hasStore, older, tmp, pc, pending, faults>>

\* Tasks.reset, os.remove raising
ResetFails ==
    /\ Idle
    /\ file.kind # "absent"
    /\ faults < MaxFaults
    /\ faults' = faults + 1
    /\ tasks' = <<>>
    /\ idCounter' = 1
    /\ issued' = 0
    /\ call' = [Running("reset") EXCEPT !.status = "raised"]
    /\ sinceReset' = "none"
    /\ UNCHANGED <<proc, hasStore, older, file, tmp, pc, pending>>

(***************************************************************************)
(* pickle_tasks and _atomic_dump, statement by statement.                  *)
(***************************************************************************)
Saving == proc \in {"running", "exiting"} /\ pc # "idle"

\* pickle_tasks is over, by its return (ok) or by an exception: a call of the
\* store returns or raises to its caller; at exit, atexit goes on to the
\* next registered pickle_tasks and the process ends after the last one.
SaveOver(ok) ==
    IF proc = "running"
    THEN /\ pc' = "idle"
         /\ pending' = <<>>
         /\ call' = IF ok THEN Saved(call.op, call.ok)
                          ELSE [call EXCEPT !.status = "raised"]
         /\ UNCHANGED <<proc, idCounter, hasStore, tasks, older, issued>>
    ELSE IF Len(pending) > 1
         THEN /\ pc' = "open"
              /\ pending' = Tail(pending)
              /\ UNCHANGED <<proc, idCounter, hasStore, tasks, older, call,
                             issued>>
         ELSE Terminate("exited")

\* os.makedirs(...); open(tmp, "wb")
SaveOpen ==
    /\ Saving /\ pc = "open"
    /\ file' = Opened(file, tmp).file
    /\ tmp' = Opened(file, tmp).tmp
    /\ pc' = "dump"
    /\ UNCHANGED <<proc, idCounter, hasStore, tasks, older, pending, call,
                   issued, sinceReset, faults>>

\* pickle.dump((self.tasks, last_id), f) and the end of the with block
SaveDump ==
    /\ Saving /\ pc = "dump"
    /\ tmp' = Pickled(Head(pending))
    /\ pc' = "replace"
    /\ UNCHANGED <<proc, idCounter, hasStore, tasks, older, file, pending,
                   call, issued, sinceReset, faults>>

\* os.replace(tmp, path)
SaveReplace ==
    /\ Saving /\ pc = "replace"
    /\ file' = Replaced(file, tmp).file
    /\ tmp' = Replaced(file, tmp).tmp
    /\ SaveOver(TRUE)
    /\ UNCHANGED <<sinceReset, faults>>

\* makedirs, open, dump or replace raises OSError.
SaveFails ==
    /\ Saving
    /\ faults < MaxFaults
    /\ faults' = faults + 1
    /\ tmp' = LeftBehind(tmp, pc)
    /\ SaveOver(FALSE)
    /\ UNCHANGED <<file, sinceReset>>

\* Normal exit of the interpreter: atexit runs the registered pickle_tasks,
\* last registered first.
Exit ==
    /\ proc = "running"
    /\ pc = "idle"
    /\ IF hasStore
       THEN /\ proc' = "exiting"
            /\ pc' = "open"
            /\ pending' = <<tasks>> \o Reverse(older)
            /\ UNCHANGED <<idCounter, hasStore, tasks, older, call, issued>>
       ELSE Terminate("exited")
    /\ UNCHANGED <<file, tmp, sinceReset, faults>>

\* The process is killed: no atexit, the disk stays as it is.
Crash ==
    /\ proc \in {"running", "exiting"}
    /\ Terminate("crashed")
    /\ tmp' = LeftBehind(tmp, pc)
    /\ UNCHANGED <<file, sinceReset, faults>>

Next ==
    \/ StartProcess
    \/ Construct
    \/ \E cmd \in AddCommands : MainAddRejected(cmd)
    \/ \E a \in AddCases : Add(a.name, a.priority, a.due_date, a.now)
    \/ \E task_id \in IdArgs : Delete(task_id)
    \/ \E task_id \in IdArgs, now \in Times : Done(task_id, now)
    \/ Reset
    \/ ResetFails
    \/ SaveOpen
    \/ SaveDump
    \/ SaveReplace
    \/ SaveFails
    \/ Exit
    \/ Crash

Spec == Init /\ [][Next]_vars

(***************************************************************************)
(* One call of list, query, report, _sort_open or parse_due, on every      *)
(* store of at most MaxId tasks and with every argument of a bounded set.  *)
(***************************************************************************)
\* Last day number datetime.now() is taken from.
MaxDay == 13

\* The adds the tasks of these stores come from.
ReadCases ==
    AddCases \cup
    {[name |-> "team", priority |-> 3, due_date |-> 1, now |-> 2],
     [name |-> "MILK", priority |-> 2, due_date |-> None, now |-> 1],
     [name |-> "eat", priority |-> 1, due_date |-> 2, now |-> 2]}

\* A task as add constructed it, open or completed by done.
StoredTasks ==
    {[Task(a.name, a.priority, a.due_date, id, a.now) EXCEPT !.completed = c] :
        a \in ReadCases, id \in 1..MaxId, c \in {None, 2}}

\* self.tasks of a store: tasks of different IDs in ascending order of
\* created, as add and _load leave them.
Stores ==
    {ts \in UNION {[1..n -> StoredTasks] : n \in 0..MaxId} :
        \A i, j \in 1..Len(ts) :
            i < j => /\ ts[i].unique_id # ts[j].unique_id
                     /\ ts[i].created <= ts[j].created}

\* The keyword arguments of query.
QueryArgs ==
    [texts : {NoArg, Arg(<<>>), Arg(<< <<"T", "E">> >>),
              Arg(<< <<"x">>, <<"i", "l">> >>)},
     priority : {NoArg, Arg(0), Arg(1), Arg(2)},
     due_before : {NoArg, Arg(1), Arg(2)},
     due_after : {NoArg, Arg(2)},
     completed : {NoArg, Arg(FALSE), Arg(TRUE)}]

\* The calls made.
Calls ==
    {[op |-> "list", args |-> b] : b \in BOOLEAN}
    \cup {[op |-> "query", args |-> q] : q \in QueryArgs}
    \cup {[op |-> "report", args |-> <<>>]}
    \cup {[op |-> "_sort_open", args |-> b] : b \in BOOLEAN}

\* parse_due(s) with datetime.now() on day today
ParseCalls ==
    {[op |-> "parse_due", args |-> [s |-> weekdays[i], today |-> d]] :
        i \in 1..Len(weekdays), d \in 0..MaxDay}

Called(c) == [op |-> c.op, args |-> c.args, status |-> "called", result |-> <<>>]

\* A process holding a saved store, or no store when it calls parse_due.
CallsInit ==
    /\ proc = "running"
    /\ \/ /\ hasStore = TRUE
          /\ tasks \in Stores
          /\ \E c \in Calls : call = Called(c)
       \/ /\ hasStore = FALSE
          /\ tasks = <<>>
          /\ \E c \in ParseCalls : call = Called(c)
    /\ idCounter = MaxId_(tasks) + 1
    /\ older = <<>>
    /\ file = (IF hasStore THEN Pickled(tasks) ELSE Absent)
    /\ tmp = Absent
    /\ pc = "idle"
    /\ pending = <<>>
    /\ issued = 0
    /\ sinceReset = "none"
    /\ faults = 0

\* The call returns result; nothing but the list of the store is written.
Returns(result) ==
    /\ call' = [call EXCEPT !.status = "returned", !.result = result]
    /\ UNCHANGED <<proc, idCounter, hasStore, older, file, tmp, pc, pending,
                   issued, sinceReset, faults>>

\* Tasks.list
ListCall ==
    /\ call.status = "called" /\ call.op = "list"
    /\ LET result == List(tasks, call.args) IN
         /\ tasks' = StoreAfterList(tasks, result)
         /\ Returns(result)

\* Tasks.query
QueryCall ==
    /\ call.status = "called" /\ call.op = "query"
    /\ tasks' = tasks
    /\ Returns(Query(tasks, call.args))

\* Tasks.report
ReportCall ==
    /\ call.status = "called" /\ call.op = "report"
    /\ tasks' = tasks
    /\ Returns(Report(tasks))

\* _sort_open(tasks.list(include_completed)), as main calls it for --list
\* and for --report
SortOpenCall ==
    /\ call.status = "called" /\ call.op = "_sort_open"
    /\ LET items == List(tasks, call.args) IN
         /\ tasks' = StoreAfterList(tasks, items)
         /\ Returns(SortOpen(items))

\* parse_due on a weekday name
ParseDueCall ==
    /\ call.status = "called" /\ call.op = "parse_due"
    /\ tasks' = tasks
    /\ Returns(ParseWeekday(call.args.s, call.args.today))

CallsNext ==
    \/ ListCall
    \/ QueryCall
    \/ ReportCall
    \/ SortOpenCall
    \/ ParseDueCall

SpecCalls == CallsInit /\ [][CallsNext]_vars

(***************************************************************************)
(* The claims.                                                             *)
(***************************************************************************)
\* C1: within one process, as long as the store is not reset, the ID the
\* next add assigns (Task._id_counter) is greater than every ID an earlier
\* add of the process was given, whatever deletes, completes and
\* constructions lie between: no ID is handed out twice.
C1_IdsIncrease == issued < idCounter

\* An add on a store emptied by delete is given ID 2: ID 1 is not reused.
C1_Witness ==
    /\ call.op = "add" /\ call.status = "running"
    /\ call.pre.tasks = <<>> /\ file = Pickled(<<>>)
    /\ issued = 2 /\ Len(tasks) = 1 /\ tasks[1].unique_id = 2

\* C2: when an add, delete or complete has saved, a store constructed from
\* the file in a new process (Task._id_counter = 1) assigns as its next ID
\* the one the saving store would assign next (stated for the runs without
\* any I/O error).
C2_CounterSurvivesRestart ==
    (proc = "running" /\ call.status = "saved" /\ faults = 0)
        => Load(file, 1).idCounter = idCounter

\* C3: when an add, a delete that found its task or a complete that changed
\* a task has returned, a store constructed from the data file holds the
\* tasks of the store in memory: the same records in the same order.
C3_PersistedEqualsMemory ==
    (proc = "running" /\ call.status = "saved")
        => (file.kind = "state" /\ Load(file, 1).tasks = tasks)

\* A complete has returned on a store of two tasks, the task of the later
\* add first in the list because its created is the earlier one.
C3_Witness ==
    /\ proc = "running" /\ call.status = "saved" /\ call.op = "done"
    /\ Len(tasks) = 2 /\ tasks[1].unique_id = 2
    /\ tasks[1].completed # None
    /\ file = Pickled(tasks)

\* C4: complete(id) on a task of the store returns true; on an open task it
\* sets completed to the current time and saves; on a completed task it
\* changes nothing in memory and writes nothing; and no call of a store
\* changes the completed timestamp of a task that stays in that store.
C4_CompleteIdempotent ==
    [][ /\ \A id \in IdArgs, now \in Times :
             LET i == FirstIndex(tasks, id, 1) IN
               (call' # call /\ Done(id, now) /\ i > 0) =>
                  /\ call'.op = "done" /\ call'.ok
                  /\ tasks[i].completed = None =>
                        /\ tasks' = [tasks EXCEPT ![i].completed = now]
                        /\ pc' = "open"
                  /\ tasks[i].completed # None =>
                        /\ call'.status = "returned"
                        /\ UNCHANGED <<tasks, file, tmp, pc, idCounter>>
        /\ (hasStore /\ hasStore' /\ older' = older) =>
             \A i \in 1..Len(tasks), j \in 1..Len(tasks') :
                (tasks[i].unique_id = tasks'[j].unique_id
                   /\ tasks[i].completed # None)
                    => tasks'[j].completed = tasks[i].completed
      ]_vars

\* A second complete of a completed task has returned true; the first one
\* was saved.
C4_Witness ==
    /\ call = Returned("done", TRUE)
    /\ \E i \in 1..Len(tasks) : tasks[i].completed # None
    /\ file = Pickled(tasks)

\* C5: when pickle_tasks raises inside add, delete or complete, the task
\* list and the ID counter are as they were before the call.
C5_NoPartialApply ==
    (call.status = "raised" /\ call.op \in {"add", "delete", "done"})
        => (tasks = call.pre.tasks /\ idCounter = call.pre.idCounter)

\* C6: the data file never holds a partly written pickle, and every step of
\* a pickle_tasks, a failing one and a crash of the process included, leaves
\* at the data file path what was there or puts the complete new state there.
C6_AtomicFile ==
    /\ [](file.kind # "partial")
    /\ [][Saving => (file' = file \/ file' = Pickled(Head(pending)))]_vars

\* The process was killed inside pickle.dump: the temporary file is cut
\* short, the data file holds the complete state saved before.
C6_Witness ==
    /\ proc = "crashed" /\ tmp = Partial
    /\ file.kind = "state" /\ file.tasks # <<>>

C8_ExitSaveIdempotent ==
    [][ (/\ proc = "exiting"
         /\ \/ call.status = "saved"
            \/ (call.op = "reset" /\ call.status = "returned"))
        => file' = file ]_vars

\* C9: constructing a store on a data file that is missing or that does not
\* hold a valid pair of task list and last ID yields an empty store and
\* leaves the ID counter as a construction without any file leaves it.
C9_CorruptionAbsorbed ==
    [][ (Construct /\ file.kind \in {"absent", "garbage", "partial", "badlist"})
        => (tasks' = <<>> /\ idCounter' = idCounter) ]_vars

\* C10: the task list of the store is in ascending order of created.
C10_SortedByCreated ==
    \A i \in 1..Len(tasks), j \in 1..Len(tasks) :
        i < j => tasks[i].created <= tasks[j].created

\* The task added second was created at the earlier time and stands first.
C10_Witness ==
    /\ Len(tasks) = 2
    /\ tasks[1].unique_id = 2 /\ tasks[2].unique_id = 1
    /\ tasks[1].created < tasks[2].created

\* C11: delete(id) returns true exactly when a task of the collection has
\* that ID. Then the collection is the previous one without that one task,
\* the others in their order, the save starts, and at the return the data
\* file holds the new collection. Otherwise it returns false at once and
\* collection, ID counter, data file and temporary file stay as they were.
C11_DeleteFrame ==
    /\ [][ \A id \in IdArgs :
             (call' # call /\ Delete(id)) =>
               LET found == \E k \in 1..Len(tasks) : tasks[k].unique_id = id
                   others(t) == t.unique_id # id
               IN  /\ call'.op = "delete" /\ call'.ok = found
                   /\ idCounter' = idCounter
                   /\ found =>
                        /\ tasks' = SelectSeq(tasks, others)
                        /\ Len(tasks') = Len(tasks) - 1
                        /\ call'.status = "running" /\ pc' = "open"
                        /\ pending' = <<tasks'>>
                   /\ ~found =>
                        /\ call'.status = "returned"
                        /\ UNCHANGED <<tasks, file, tmp, pc, pending>>
         ]_vars
    /\ []((proc = "running" /\ call.op = "delete") =>
            /\ call.status = "saved" => (call.ok /\ file = Pickled(tasks))
            /\ call.status = "returned" => ~call.ok)

\* A delete of the second of two tasks has returned true: the first task is
\* left, and the data file holds it.
C11_Witness ==
    /\ call = Saved("delete", TRUE)
    /\ Len(tasks) = 1 /\ tasks[1].unique_id = 1 /\ idCounter = 3
    /\ file = Pickled(tasks)

\* The tasks of a list, as a set.
TaskSet(ts) == {ts[i] : i \in 1..Len(ts)}

\* C12: in every state of a store, query(completed=False) and
\* query(completed=True) have no task in common, and the tasks of the two
\* together are the tasks of list(include_completed=True).
C12_QueryPartitions ==
    hasStore =>
        LET open == TaskSet(QueryCompleted(tasks, FALSE))
            closed == TaskSet(QueryCompleted(tasks, TRUE))
        IN  /\ open \cap closed = {}
            /\ open \cup closed = TaskSet(List(tasks, TRUE))

\* A store of an open and a completed task: each of the two queries returns
\* one of them.
C12_Witness ==
    /\ Idle /\ Len(tasks) = 2
    /\ Len(QueryCompleted(tasks, FALSE)) = 1
    /\ Len(QueryCompleted(tasks, TRUE)) = 1

\* a and b are one letter, in the same case or not.
SameLetter(a, b) ==
    \/ a = b
    \/ \E i \in 1..Len(UpperCase) : {a, b} = {UpperCase[i], LowerCase[i]}

\* Task t passes every filter the keyword arguments q give.
Satisfies(t, q) ==
    /\ (q.texts.given /\ Len(q.texts.value) > 0) =>
          \E n \in 1..Len(q.texts.value) :
             LET sub == q.texts.value[n]
                 name == Chars(t.name)
             IN  \E i \in 0..(Len(name) - Len(sub)) :
                    \A k \in 1..Len(sub) : SameLetter(sub[k], name[i + k])
    /\ (q.priority.given /\ q.priority.value \in {1, 2, 3}) =>
          t.priority = q.priority.value
    /\ q.due_before.given =>
          (t.due_date # None /\ ~(t.due_date > q.due_before.value))
    /\ q.due_after.given =>
          (t.due_date # None /\ ~(t.due_date < q.due_after.value))
    /\ q.completed.given => ((t.completed # None) <=> q.completed.value)

\* C13: query returns, in the order of the collection, exactly the tasks
\* that pass every filter given: one of the texts of a non-empty list occurs
\* in the name whatever the case of the letters; the priority, when it is 1,
\* 2 or 3, is the task's; the task has a due date not later than due_before
\* and not earlier than due_after; completed is set or not as the boolean
\* says. A filter left out, an empty list of texts and a priority outside
\* 1..3 exclude no task.
C13_QueryFilters ==
    (call.op = "query" /\ call.status = "returned") =>
        LET passes(t) == Satisfies(t, call.args)
        IN  call.result = SelectSeq(tasks, passes)

\* A query with all five filters, the text in capitals, has returned one of
\* the two tasks of the store.
C13_Witness ==
    /\ call.op = "query" /\ call.status = "returned"
    /\ call.args = [texts |-> Arg(<< <<"T", "E">> >>), priority |-> Arg(2),
                    due_before |-> Arg(2), due_after |-> Arg(2),
                    completed |-> Arg(FALSE)]
    /\ Len(tasks) = 2 /\ Len(call.result) = 1
    /\ call.result[1].name = "Tea"

\* The IDs of the tasks list(include_completed=False) returns.
OpenIds(ts) == {List(ts, FALSE)[i].unique_id : i \in 1..Len(List(ts, FALSE))}

\* A step of a call of the store in use that changes its list of tasks.
StoreChanged ==
    /\ tasks' # tasks
    /\ proc = "running" /\ proc' = "running"
    /\ hasStore /\ hasStore' /\ older' = older

\* C14: list(include_completed=False) returns, in their order, exactly the
\* tasks whose completed is None, and report() counts the others as
\* completed. The task an add created is in that list; an open task stays
\* in it through every call of its store but a complete or delete of its
\* ID and a reset; a complete takes its task out of the list, and a
\* completed task is in the list after no call of its store; a store
\* constructed from a file that holds a task completed holds it completed.
\* (The steps that leave the list of the store as it is are covered by the
\* first part.)
C14_OpenListLifecycle ==
    /\ [](hasStore =>
            /\ \A i \in 1..Len(tasks) :
                  (tasks[i].unique_id \in OpenIds(tasks))
                      <=> tasks[i].completed = None
            /\ \A i, j \in 1..Len(List(tasks, FALSE)) :
                  (i < j) => (\E k, l \in 1..Len(tasks) :
                                 /\ k < l
                                 /\ tasks[k] = List(tasks, FALSE)[i]
                                 /\ tasks[l] = List(tasks, FALSE)[j])
            /\ Report(tasks).completed
                  = Len(tasks) - Cardinality(OpenIds(tasks)))
    /\ [][ /\ StoreChanged =>
                /\ \A a \in AddCases :
                      Add(a.name, a.priority, a.due_date, a.now)
                          => idCounter \in OpenIds(tasks')
                /\ \A id \in IdArgs, now \in Times :
                      Done(id, now)
                          => (id \notin OpenIds(tasks')
                                /\ Report(tasks').completed >= 1)
                /\ \A i \in 1..Len(tasks) :
                      LET id == tasks[i].unique_id IN
                        /\ (tasks[i].completed = None) =>
                              (\/ id \in OpenIds(tasks')
                               \/ Delete(id)
                               \/ \E now \in Times : Done(id, now)
                               \/ Reset \/ ResetFails)
                        /\ (tasks[i].completed # None) =>
                              (id \notin OpenIds(tasks'))
           /\ (tasks' # tasks /\ file.kind = "state" /\ call'.status = "returned"
                 /\ call'.op \in {"construct", "main --add"}) =>
                \A i \in 1..Len(file.tasks) :
                   file.tasks[i].completed # None
                       => (/\ \E k \in 1..Len(tasks') :
                                tasks'[k].unique_id = file.tasks[i].unique_id
                           /\ file.tasks[i].unique_id \notin OpenIds(tasks'))
        ]_vars

\* A complete has returned on a store of two tasks: list(False) returns the
\* other one and report() counts one task as completed.
C14_Witness ==
    /\ call = Saved("done", TRUE)
    /\ Len(tasks) = 2 /\ Len(List(tasks, FALSE)) = 1
    /\ Report(tasks).completed = 1 /\ Report(tasks).open = 1

\* C15: _sort_open returns a permutation of the list it is given: every
\* task with a due date stands before every task without one, the tasks
\* with a due date are in ascending order of (due_date, priority, created),
\* those without in ascending order of (priority, created).
C15_SortOpenOrder ==
    (call.op = "_sort_open" /\ call.status = "returned") =>
        LET items == List(tasks, call.args)
            out == call.result
        IN  /\ Len(out) = Len(items)
            /\ \A i \in 1..Len(items) :
                  Cardinality({k \in 1..Len(out) : out[k] = items[i]})
                    = Cardinality({k \in 1..Len(items) : items[k] = items[i]})
            /\ \A i, j \in 1..Len(out) :
                  (i < j) =>
                    LET a == out[i]
                        b == out[j]
                    IN  /\ a.due_date = None => b.due_date = None
                        /\ (a.due_date # None /\ b.due_date # None) =>
                              /\ a.due_date <= b.due_date
                              /\ (a.due_date = b.due_date)
                                    => (a.priority <= b.priority)
                              /\ (a.due_date = b.due_date
                                     /\ a.priority = b.priority)
                                    => (a.created <= b.created)
                        /\ (a.due_date = None /\ b.due_date = None) =>
                              /\ a.priority <= b.priority
                              /\ (a.priority = b.priority)
                                    => (a.created <= b.created)

\* Two tasks due on the same day, the one created first of the lower
\* priority: _sort_open has put it behind the other.
C15_Witness ==
    /\ call.op = "_sort_open" /\ call.status = "returned"
    /\ Len(tasks) = 2 /\ Len(call.result) = 2
    /\ call.result[1] = tasks[2] /\ call.result[2] = tasks[1]
    /\ tasks[1].due_date = tasks[2].due_date /\ tasks[1].due_date # None
    /\ tasks[1].priority > tasks[2].priority
    /\ tasks[1].created < tasks[2].created

\* C16: every task of a store has a priority of 1, 2 or 3, an add with
\* another priority storing 1; and report() returns the number of tasks as
\* total, the number of tasks with completed set as completed, total -
\* completed as open, and for p in 1..3 the number of tasks of priority p,
\* three numbers whose sum is total.
C16_PrioritiesAndReport ==
    /\ [](hasStore =>
            LET r == Report(tasks)
                n(p) == Cardinality({i \in 1..Len(tasks) : tasks[i].priority = p})
            IN  /\ \A i \in 1..Len(tasks) : tasks[i].priority \in {1, 2, 3}
                /\ r.total = Len(tasks)
                /\ r.completed
                     = Cardinality({i \in 1..Len(tasks) :
                                       tasks[i].completed # None})
                /\ r.open = r.total - r.completed
                /\ DOMAIN r.by_priority = {1, 2, 3}
                /\ \A p \in {1, 2, 3} : r.by_priority[p] = n(p)
                /\ r.by_priority[1] + r.by_priority[2] + r.by_priority[3]
                     = r.total)
    /\ [][ \A a \in AddCases :
             (tasks' # tasks /\ Add(a.name, a.priority, a.due_date, a.now)) =>
               \E k \in 1..Len(tasks') :
                  /\ tasks'[k].unique_id = idCounter
                  /\ tasks'[k].priority
                       = (IF a.priority \in {1, 2, 3} THEN a.priority ELSE 1)
         ]_vars

\* A store of a completed task of priority 2 and an open task added with
\* priority 0: report() counts one task under priority 1 and one under 2.
C16_Witness ==
    /\ Idle /\ Len(tasks) = 2
    /\ \E i \in 1..Len(tasks) :
          tasks[i].name = "milk" /\ tasks[i].priority = 1
    /\ Report(tasks) = [total |-> 2, open |-> 1, completed |-> 1,
                        by_priority |-> (1 :> 1 @@ 2 :> 1 @@ 3 :> 0)]

\* C17: a call of list, query, report or _sort_open leaves the store as it
\* was: the tasks with all their fields and their order, the ID counter,
\* the data file and the temporary file are after the return what they were
\* at the call.
C17_ReadsChangeNothing ==
    [][ (/\ call.op \in {"list", "query", "report", "_sort_open"}
         /\ call.status = "called" /\ call'.status = "returned")
        => UNCHANGED <<tasks, idCounter, file, tmp, hasStore, older>> ]_vars

\* list(include_completed=False) has returned fewer tasks than the store
\* holds, and the store and its file hold them all.
C17_Witness ==
    /\ call.op = "list" /\ call.status = "returned" /\ call.args = FALSE
    /\ Len(tasks) = 2 /\ Len(call.result) = 1
    /\ file = Pickled(tasks) /\ idCounter = MaxId_(tasks) + 1

\* C19: for every weekday of today and every weekday name, the date
\* parse_due returns is 1 to 7 days after today, falls on the weekday named
\* and is not today; when today is the weekday named it is 7 days after
\* today.
C19_NextWeekday ==
    (call.op = "parse_due" /\ call.status = "returned") =>
        LET today == call.args.today
            days == call.result - today
        IN  /\ days \in 1..7
            /\ call.result # today
            /\ weekdays[(call.result % 7) + 1] = call.args.s
            /\ (weekdays[(today % 7) + 1] = call.args.s) => (days = 7)

\* parse_due("wednesday") on a Wednesday has returned the Wednesday of the
\* next week.
C19_Witness ==
    /\ call.op = "parse_due" /\ call.status = "returned"
    /\ call.args = [s |-> "wednesday", today |-> 9]
    /\ call.result = 16

\* C18: an add command whose text is blank or all digits after the trim,
\* or whose --due expression parse_due does not take, returns exit code 1
\* and adds no task and uses no ID: its store holds the tasks and the ID
\* counter it loaded, and when its process has ended, a store constructed
\* from the data file in a new process assigns as its next ID the one the
\* rejected command's store would have assigned.
C18_RejectedAddUsesNoId ==
    [][ /\ \A cmd \in AddCommands :
             MainAddRejected(cmd) =>
                /\ ~(Strip(cmd.text) # <<>> /\ ~IsDigit(Strip(cmd.text))
                       /\ DueRecognized(cmd.due))
                /\ call'.ok = FALSE
                /\ Len(tasks') = Len(file.tasks)
                /\ file' = file
        /\ (/\ call = Returned("main --add", FALSE) /\ older = <<>>
            /\ proc = "exiting" /\ proc' = "exited")
           => Load(file', 1).idCounter = idCounter
      ]_vars

\* C20: in every state of a store, whatever adds, deletes, completes,
\* resets, exits and constructions from the data file (missing, corrupt or
\* written by a save) led to it, no two tasks of the store have the same
\* ID, and every ID in it is positive and smaller than the ID the next add
\* assigns.
C20_IdsUniqueBelowNext ==
    hasStore =>
        /\ \A i, j \in 1..Len(tasks) :
              (i # j) => (tasks[i].unique_id # tasks[j].unique_id)
        /\ \A i \in 1..Len(tasks) :
              tasks[i].unique_id >= 1 /\ tasks[i].unique_id < idCounter

\* A store constructed in a new process from the file a save wrote holds
\* the two tasks of the file, and its next add will assign ID 3.
C20_Witness ==
    /\ call = Returned("construct", TRUE) /\ issued = 0
    /\ Len(tasks) = 2 /\ idCounter = 3
    /\ file = Pickled(tasks)
====
